---------------------------- MODULE Spec2Model ----------------------------
(* A model of fisherman611/gaia-agent, src/app.py: the QnAChatbot class     *)
(* (process_question, _process_uploaded_files, clear_history) and the       *)
(* event handlers that create_qna_interface registers on the Gradio         *)
(* components.                                                              *)
(*                                                                          *)
(* Python strings are sequences of one-character strings, so that strip,    *)
(* startswith, slicing, join, basename, splitext, lower and base64 are      *)
(* computed character by character.  File contents are sequences of bytes   *)
(* (0..255).  Python's None is the record None; an Optional value v is      *)
(* Some(v).                                                                 *)
EXTENDS Integers, Sequences, FiniteSets, TLC

----------------------------------------------------------------------------
(* Optional values                                                          *)

None == [none |-> TRUE, v |-> <<>>]

Some(x) == [none |-> FALSE, v |-> x]

----------------------------------------------------------------------------
(* Python string operations                                                 *)

EmptyStr == <<>>

Whitespace == {" ", "\n", "\t"}

RECURSIVE lstrip(_)
lstrip(s) ==
    IF s # <<>> /\ Head(s) \in Whitespace THEN lstrip(Tail(s)) ELSE s

RECURSIVE rstrip(_)
rstrip(s) ==
    IF s # <<>> /\ s[Len(s)] \in Whitespace
    THEN rstrip(SubSeq(s, 1, Len(s) - 1))
    ELSE s

\* str.strip()
strip(s) == rstrip(lstrip(s))

\* str.startswith(p)
startswith(s, p) == Len(s) >= Len(p) /\ SubSeq(s, 1, Len(p)) = p

\* s[n:]
SliceFrom(s, n) == SubSeq(s, n + 1, Len(s))

\* sep.join(parts)
RECURSIVE join(_, _)
join(sep, parts) ==
    IF parts = <<>> THEN <<>>
    ELSE IF Len(parts) = 1 THEN parts[1]
    ELSE parts[1] \o sep \o join(sep, Tail(parts))

UpperChars == << "A", "B", "C", "D", "E", "F", "G", "H", "I", "J", "K", "L",
                 "M", "N", "O", "P", "Q", "R", "S", "T", "U", "V", "W", "X",
                 "Y", "Z" >>

LowerChars == << "a", "b", "c", "d", "e", "f", "g", "h", "i", "j", "k", "l",
                 "m", "n", "o", "p", "q", "r", "s", "t", "u", "v", "w", "x",
                 "y", "z" >>

\* str.lower(), one character
LowerChar(c) ==
    IF \E i \in 1..Len(UpperChars) : UpperChars[i] = c
    THEN LowerChars[CHOOSE i \in 1..Len(UpperChars) : UpperChars[i] = c]
    ELSE c

lower(s) == [i \in 1..Len(s) |-> LowerChar(s[i])]

\* the index of the last occurrence of c in s, 0 when there is none
\* (str.rfind, counted from 1)
LastIndexOf(s, c) ==
    IF \E i \in 1..Len(s) : s[i] = c
    THEN CHOOSE i \in 1..Len(s) : s[i] = c /\ \A j \in (i + 1)..Len(s) : s[j] # c
    ELSE 0

\* os.path.basename (posixpath): what follows the last "/"
basename(path) == SliceFrom(path, LastIndexOf(path, "/"))

\* os.path.splitext(name)[1] (genericpath._splitext): from the last "." on,
\* unless every character before that dot is a dot too
splitext_ext(name) ==
    LET d == LastIndexOf(name, ".")
    IN  IF d > 0 /\ \E i \in 1..(d - 1) : name[i] # "."
        THEN SubSeq(name, d, Len(name))
        ELSE <<>>

B64Alphabet == << "A", "B", "C", "D", "E", "F", "G", "H", "I", "J", "K", "L",
                  "M", "N", "O", "P", "Q", "R", "S", "T", "U", "V", "W", "X",
                  "Y", "Z", "a", "b", "c", "d", "e", "f", "g", "h", "i", "j",
                  "k", "l", "m", "n", "o", "p", "q", "r", "s", "t", "u", "v",
                  "w", "x", "y", "z", "0", "1", "2", "3", "4", "5", "6", "7",
                  "8", "9", "+", "/" >>

\* base64.b64encode(data).decode('utf-8'), data a sequence of bytes
RECURSIVE b64encode(_)
b64encode(data) ==
    IF data = <<>> THEN <<>>
    ELSE IF Len(data) = 1 THEN
        << B64Alphabet[(data[1] \div 4) + 1],
           B64Alphabet[((data[1] % 4) * 16) + 1], "=", "=" >>
    ELSE IF Len(data) = 2 THEN
        << B64Alphabet[(data[1] \div 4) + 1],
           B64Alphabet[((data[1] % 4) * 16 + (data[2] \div 16)) + 1],
           B64Alphabet[((data[2] % 16) * 4) + 1], "=" >>
    ELSE
        << B64Alphabet[(data[1] \div 4) + 1],
           B64Alphabet[((data[1] % 4) * 16 + (data[2] \div 16)) + 1],
           B64Alphabet[((data[2] % 16) * 4 + (data[3] \div 64)) + 1],
           B64Alphabet[(data[3] % 64) + 1] >>
        \o b64encode(SubSeq(data, 4, Len(data)))

\* the ASCII characters of code points 32..95 and 97..126
AsciiLow == << " ", "!", "\"", "#", "$", "%", "&", "'", "(", ")", "*", "+",
               ",", "-", ".", "/", "0", "1", "2", "3", "4", "5", "6", "7", "8",
               "9", ":", ";", "<", "=", ">", "?" >>
            \o << "@", "A", "B", "C", "D", "E", "F", "G", "H", "I", "J", "K",
                  "L", "M", "N", "O", "P", "Q", "R", "S", "T", "U", "V", "W",
                  "X", "Y", "Z", "[", "\\", "]", "^", "_" >>

AsciiHigh == << "a", "b", "c", "d", "e", "f", "g", "h", "i", "j", "k", "l",
                "m", "n", "o", "p", "q", "r", "s", "t", "u", "v", "w", "x",
                "y", "z", "{", "|", "}", "~" >>

\* f.read() of a file opened with encoding='utf-8' decodes an ASCII byte to its
\* character; the files of the model hold the bytes 9, 10, 32..95 and
\* 97..126, and any other byte they hold is an invalid start byte
Utf8Valid(data) ==
    \A i \in 1..Len(data) :
        data[i] \in {9, 10} \cup (32..95) \cup (97..126)

Utf8Char(b) ==
    IF b = 10 THEN "\n"
    ELSE IF b = 9 THEN "\t"
    ELSE IF b <= 95 THEN AsciiLow[b - 31]
    ELSE AsciiHigh[b - 96]

utf8_decode(data) == [i \in 1..Len(data) |-> Utf8Char(data[i])]

----------------------------------------------------------------------------
(* QnAChatbot._process_uploaded_files                                       *)
(*                                                                          *)
(* An uploaded file is a record                                             *)
(*   path   : the path string handed to the handler ("" models a falsy one) *)
(*   exists : what os.path.exists(path) answers                             *)
(*   data   : the bytes of the file                                         *)
(*   fail   : "none", or the call that raises for this file: "getsize"      *)
(*            (os.path.getsize) or "open" (open / read)                     *)
(*   msg    : str(e) of that exception                                      *)

\* line 99: '.jpg', '.jpeg', '.png', '.gif', '.bmp', '.webp'
IMAGE_EXTS ==
    { <<".", "j", "p", "g">>,
      <<".", "j", "p", "e", "g">>,
      <<".", "p", "n", "g">>,
      <<".", "g", "i", "f">>,
      <<".", "b", "m", "p">>,
      <<".", "w", "e", "b", "p">> }

\* line 106: '.txt', '.md', '.py', '.js', '.html', '.css', '.json', '.xml'
TEXT_EXTS ==
    { <<".", "t", "x", "t">>,
      <<".", "m", "d">>,
      <<".", "p", "y">>,
      <<".", "j", "s">>,
      <<".", "h", "t", "m", "l">>,
      <<".", "c", "s", "s">>,
      <<".", "j", "s", "o", "n">>,
      <<".", "x", "m", "l">> }

\* line 113
CSV_EXTS == { <<".", "c", "s", "v">> }

\* line 118
EXCEL_EXTS == { <<".", "x", "l", "s", "x">>, <<".", "x", "l", "s">> }

\* line 123
PDF_EXTS == { <<".", "p", "d", "f">> }

\* "'utf-8' codec can't decode byte": the start of str(e) of the
\* UnicodeDecodeError that f.read() raises on a non-UTF-8 file
UnicodeDecodeErrorMsg == << "'", "u", "t", "f", "-", "8", "'", " ", "c", "o",
                            "d", "e", "c", " ", "c", "a", "n", "'", "t", " ",
                            "d", "e", "c", "o", "d", "e", " ", "b", "y", "t",
                            "e" >>

\* line 137: "[ERROR PROCESSING FILE: <basename>] - <str(e)>"
ErrorFragment(f, msg) ==
    << "[", "E", "R", "R", "O", "R", " ", "P", "R", "O", "C", "E", "S", "S",
       "I", "N", "G", " ", "F", "I", "L", "E", ":", " " >>
    \o basename(f.path)
    \o <<"]", " ", "-", " ">>
    \o msg

\* lines 101-103: "[UPLOADED IMAGE: <file_name>] - Base64 data: <image_data>"
ImageFragment(f, file_name) ==
    IF f.fail = "open" THEN ErrorFragment(f, f.msg)
    ELSE << "[", "U", "P", "L", "O", "A", "D", "E", "D", " ", "I", "M", "A",
            "G", "E", ":", " " >>
         \o file_name
         \o << "]", " ", "-", " ", "B", "a", "s", "e", "6", "4", " ", "d", "a",
               "t", "a", ":", " " >>
         \o b64encode(f.data)

\* lines 108-110: "[UPLOADED TEXT FILE: <file_name>]\nContent:\n<content>"
TextFragment(f, file_name) ==
    IF f.fail = "open" THEN ErrorFragment(f, f.msg)
    ELSE IF ~Utf8Valid(f.data) THEN ErrorFragment(f, UnicodeDecodeErrorMsg)
    ELSE << "[", "U", "P", "L", "O", "A", "D", "E", "D", " ", "T", "E", "X",
            "T", " ", "F", "I", "L", "E", ":", " " >>
         \o file_name
         \o <<"]", "\n", "C", "o", "n", "t", "e", "n", "t", ":", "\n">>
         \o utf8_decode(f.data)

\* lines 115, 120, 125, 130: "<label><file_name>] - File path: <file_path>"
PathFragment(label, f, file_name) ==
    label
    \o file_name
    \o << "]", " ", "-", " ", "F", "i", "l", "e", " ", "p", "a", "t", "h", ":",
          " " >>
    \o f.path

\* ClassifyFile with the extension compared as spelled (no .lower())
ClassifyFile_nolower(f) ==
    LET file_name == basename(f.path)
        file_ext  == splitext_ext(file_name)
    IN  IF f.fail = "getsize" THEN ErrorFragment(f, f.msg)
        ELSE IF file_ext \in IMAGE_EXTS THEN ImageFragment(f, file_name)
        ELSE IF file_ext \in TEXT_EXTS THEN TextFragment(f, file_name)
        ELSE IF file_ext \in CSV_EXTS
             THEN PathFragment(<< "[", "U", "P", "L", "O", "A", "D", "E", "D",
                                  " ", "C", "S", "V", " ", "F", "I", "L", "E",
                                  ":", " " >>, f, file_name)
        ELSE IF file_ext \in EXCEL_EXTS
             THEN PathFragment(<< "[", "U", "P", "L", "O", "A", "D", "E", "D",
                                  " ", "E", "X", "C", "E", "L", " ", "F", "I",
                                  "L", "E", ":", " " >>, f, file_name)
        ELSE IF file_ext \in PDF_EXTS
             THEN PathFragment(<< "[", "U", "P", "L", "O", "A", "D", "E", "D",
                                  " ", "P", "D", "F", " ", "F", "I", "L", "E",
                                  ":", " " >>, f, file_name)
        ELSE PathFragment(<< "[", "U", "P", "L", "O", "A", "D", "E", "D", " ",
                             "F", "I", "L", "E", ":", " " >>, f, file_name)

\* lines 91-137: the fragment one existing file contributes
ClassifyFile(f) ==
    LET file_name == basename(f.path)
        file_ext  == lower(splitext_ext(file_name))
    IN  IF f.fail = "getsize" THEN ErrorFragment(f, f.msg)
        ELSE IF file_ext \in IMAGE_EXTS THEN ImageFragment(f, file_name)
        ELSE IF file_ext \in TEXT_EXTS THEN TextFragment(f, file_name)
        ELSE IF file_ext \in CSV_EXTS
             THEN PathFragment(<< "[", "U", "P", "L", "O", "A", "D", "E", "D",
                                  " ", "C", "S", "V", " ", "F", "I", "L", "E",
                                  ":", " " >>, f, file_name)
        ELSE IF file_ext \in EXCEL_EXTS
             THEN PathFragment(<< "[", "U", "P", "L", "O", "A", "D", "E", "D",
                                  " ", "E", "X", "C", "E", "L", " ", "F", "I",
                                  "L", "E", ":", " " >>, f, file_name)
        ELSE IF file_ext \in PDF_EXTS
             THEN PathFragment(<< "[", "U", "P", "L", "O", "A", "D", "E", "D",
                                  " ", "P", "D", "F", " ", "F", "I", "L", "E",
                                  ":", " " >>, f, file_name)
        ELSE PathFragment(<< "[", "U", "P", "L", "O", "A", "D", "E", "D", " ",
                             "F", "I", "L", "E", ":", " " >>, f, file_name)

\* SkipFile without the os.path.exists test
SkipFile_falsy(f) == f.path = <<>>

\* lines 87-89: "if not file_path or not os.path.exists(file_path): continue"
SkipFile(f) == f.path = <<>> \/ ~f.exists

\* the fragment ClassifyFile(f) is an error fragment
IsErrorFragment(f) ==
    ClassifyFile(f) \in { ErrorFragment(f, f.msg),
                          ErrorFragment(f, UnicodeDecodeErrorMsg) }

\* file_contexts with the try around the loop: the first failing file ends it
RECURSIVE file_contexts_abort(_)
file_contexts_abort(uploaded_files) ==
    IF uploaded_files = <<>> THEN <<>>
    ELSE IF SkipFile(Head(uploaded_files))
    THEN file_contexts_abort(Tail(uploaded_files))
    ELSE IF IsErrorFragment(Head(uploaded_files))
    THEN << ClassifyFile(Head(uploaded_files)) >>
    ELSE << ClassifyFile(Head(uploaded_files)) >>
         \o file_contexts_abort(Tail(uploaded_files))

\* file_contexts with each fragment put in front of the earlier ones
RECURSIVE file_contexts_front(_)
file_contexts_front(uploaded_files) ==
    IF uploaded_files = <<>> THEN <<>>
    ELSE file_contexts_front(Tail(uploaded_files))
         \o (IF SkipFile(Head(uploaded_files)) THEN <<>>
             ELSE << ClassifyFile(Head(uploaded_files)) >>)

\* lines 84-137: the list file_contexts after the loop
RECURSIVE file_contexts(_)
file_contexts(uploaded_files) ==
    IF uploaded_files = <<>> THEN <<>>
    ELSE (IF SkipFile(Head(uploaded_files)) THEN <<>>
          ELSE << ClassifyFile(Head(uploaded_files)) >>)
         \o file_contexts(Tail(uploaded_files))

\* OpensFile with every processed file opened
OpensFile_all(f) == ~SkipFile(f) /\ f.fail # "getsize"

\* lines 99-102 and 106-109: open(file_path, ...) is called in the image and
\* in the text branch only, after os.path.getsize (line 94) has returned
OpensFile(f) ==
    LET file_ext == lower(splitext_ext(basename(f.path)))
    IN  /\ ~SkipFile(f)
        /\ f.fail # "getsize"
        /\ file_ext \in IMAGE_EXTS \cup TEXT_EXTS

\* lines 86-137: the paths open() is called on, in order
open_calls(uploaded_files) ==
    LET opened == SelectSeq(uploaded_files, OpensFile)
    IN  [i \in 1..Len(opened) |-> opened[i].path]

\* lines 139-143
process_uploaded_files(uploaded_files) ==
    IF file_contexts(uploaded_files) # <<>>
    THEN join(<<"\n", "\n">>, file_contexts(uploaded_files))
    ELSE EmptyStr

----------------------------------------------------------------------------
(* QnAChatbot.process_question                                              *)
(*                                                                          *)
(* question is an Optional string, history a sequence of turns              *)
(* <<request, response>>, uploaded_files an Optional sequence of files.     *)
(* agent is what self.graph.invoke does when called: raise an exception     *)
(* with str(e) = msg, or return a result whose 'messages' have the contents *)
(* messages, in order.                                                      *)

\* line 59: "Assistant: "
ASSISTANT_PREFIX == <<"A", "s", "s", "i", "s", "t", "a", "n", "t", ":", " ">>

\* line 60: answer[11:]
PrefixSlice == 11

\* "list index out of range": str(e) of the IndexError of line 56 on an empty
\* 'messages' list
IndexErrorMsg == << "l", "i", "s", "t", " ", "i", "n", "d", "e", "x", " ", "o",
                    "u", "t", " ", "o", "f", " ", "r", "a", "n", "g", "e" >>

\* "not uploaded_files": None and the empty list are falsy
FilesGiven(uploaded_files) == ~uploaded_files.none /\ uploaded_files.v # <<>>

\* line 21, for a question that is a string
GateRejects(question, uploaded_files) ==
    strip(question) = <<>> /\ ~FilesGiven(uploaded_files)

\* lines 32-35
FileContext(uploaded_files) ==
    IF FilesGiven(uploaded_files)
    THEN process_uploaded_files(uploaded_files.v)
    ELSE EmptyStr

\* a variant of ComposePrompt that tests the question without strip()
ComposePrompt_nostrip(question, file_context) ==
    IF file_context # <<>>
    THEN IF question # <<>>
         THEN question \o <<"\n", "\n">> \o file_context
         ELSE file_context
    ELSE question

\* lines 36-38: the value of question after the file handling
ComposePrompt(question, file_context) ==
    IF file_context # <<>>
    THEN IF strip(question) # <<>>
         THEN question \o <<"\n", "\n">> \o file_context
         ELSE file_context
    ELSE question

\* line 42: messages = [HumanMessage(content=question)]
HumanMessages(prompt) == << [role |-> "human", content |-> prompt] >>

\* a variant of CleanAnswer that removes every leading occurrence
RECURSIVE CleanAnswer_all(_)
CleanAnswer_all(answer) ==
    IF startswith(answer, ASSISTANT_PREFIX)
    THEN CleanAnswer_all(SliceFrom(answer, PrefixSlice))
    ELSE answer

\* lines 59-60
CleanAnswer(answer) ==
    IF startswith(answer, ASSISTANT_PREFIX)
    THEN SliceFrom(answer, PrefixSlice)
    ELSE answer

\* line 73: "Error processing question: <str(e)>"
ErrorMsg(e) == << "E", "r", "r", "o", "r", " ", "p", "r", "o", "c", "e", "s",
                  "s", "i", "n", "g", " ", "q", "u", "e", "s", "t", "i", "o",
                  "n", ":", " " >> \o e

\* a variant of ErrorTurn that records the question as it was on entry
ErrorTurn_original(original_question, question, e) ==
    << original_question, ErrorMsg(e) >>

\* line 78: the turn the except branch appends; question is the variable as
\* reassigned at line 38, original_question its value on entry (line 37)
ErrorTurn(original_question, question, e) == << question, ErrorMsg(e) >>

\* line 64: the turn the success path appends
AnswerTurn(prompt, answer) == << prompt, CleanAnswer(answer) >>

\* a variant of LastContent that reads the first message
LastContent_first(messages) == messages[1]

\* line 56: result['messages'][-1].content
LastContent(messages) == messages[Len(messages)]

\* a variant of AppendTurn that puts the new turn first
AppendTurn_front(history, turn) == << turn >> \o history

\* lines 64 and 78: history.append(turn)
AppendTurn(history, turn) == Append(history, turn)

\* a variant of InvokeCalls that calls the graph a second time
InvokeCalls_retry(prompt) == << HumanMessages(prompt), HumanMessages(prompt) >>

\* the calls of self.graph.invoke one process_question call makes (line 46),
\* each given by the message list it passes
InvokeCalls(prompt) == << HumanMessages(prompt) >>

\* the outcome of a call: raised says that an exception left the call; ret is
\* the returned pair; invoked lists the graph.invoke calls made
Outcome(raised, rejected, ret, fragments, prompt, invoked) ==
    [raised |-> raised, rejected |-> rejected, ret |-> ret,
     fragments |-> fragments, prompt |-> prompt, invoked |-> invoked]

\* lines 19-80
process_question(question, history, uploaded_files, agent) ==
    IF question.none
    THEN \* line 21: None.strip() raises AttributeError outside the try
         Outcome(TRUE, FALSE, << >>, << >>, EmptyStr, << >>)
    ELSE IF GateRejects(question.v, uploaded_files)
    THEN Outcome(FALSE, TRUE, << EmptyStr, history >>, << >>, EmptyStr, << >>)
    ELSE
      LET fragments == IF FilesGiven(uploaded_files)
                       THEN file_contexts(uploaded_files.v) ELSE << >>
          prompt    == ComposePrompt(question.v, FileContext(uploaded_files))
          turn      == IF agent.raises
                       THEN ErrorTurn(question.v, prompt, agent.msg)
                       ELSE IF agent.messages = << >>
                       THEN ErrorTurn(question.v, prompt, IndexErrorMsg)
                       ELSE AnswerTurn(prompt, LastContent(agent.messages))
      IN  Outcome(FALSE, FALSE, << EmptyStr, AppendTurn(history, turn) >>,
                  fragments, prompt, InvokeCalls(prompt))

\* lines 21-33: the paths a call of process_question opens; the files are
\* processed only when the call passes line 21 and uploaded_files is truthy
process_question_opens(question, uploaded_files) ==
    IF question.none THEN << >>
    ELSE IF GateRejects(question.v, uploaded_files) THEN << >>
    ELSE IF FilesGiven(uploaded_files) THEN open_calls(uploaded_files.v)
    ELSE << >>

\* conversation_history_after with the attribute set to the list passed in
conversation_history_after_sync(attribute, history) == history

\* lines 19-80: self.conversation_history after a call of process_question
\* that was passed history; no line of the method assigns the attribute
conversation_history_after(attribute, history) == attribute

\* clear_history returning a turn
clear_history_stale ==
    [conversation_history |-> << >>,
     ret |-> << << <<"h", "i">>, <<"h", "e", "l", "l", "o">> >> >>]

\* lines 145-150: the new value of self.conversation_history and the return
clear_history == [conversation_history |-> << >>, ret |-> << >>]

\* lines 839-845: submit_question returns process_question's pair and None for
\* the file list; an exception of process_question leaves it as it is
submit_question(question, history, files, agent) ==
    LET out == process_question(question, history, files, agent)
    IN  IF out.raised THEN out
        ELSE [out EXCEPT !.ret = << out.ret[1], out.ret[2], None >>]

----------------------------------------------------------------------------
(* export_conversation (lines 855-894)                                      *)

Digits == <<"0", "1", "2", "3", "4", "5", "6", "7", "8", "9">>

\* str(n) for n >= 0
RECURSIVE str_int(_)
str_int(n) ==
    IF n < 10 THEN << Digits[n + 1] >>
    ELSE str_int(n \div 10) \o << Digits[(n % 10) + 1] >>

\* c * n
RECURSIVE repeat(_, _)
repeat(c, n) == IF n = 0 THEN << >> ELSE << c >> \o repeat(c, n - 1)

\* the widths of the two rules, "=" * 50 and "-" * 30
HeaderRule == 50

BlockRule == 30

\* datetime.now() as formatted at lines 867 and 869: "20250101_120000" and
\* "2025-01-01 12:00:00"
ExportTimestamp == << "2", "0", "2", "5", "0", "1", "0", "1", "_", "1", "2",
                      "0", "0", "0", "0" >>

ExportDate == << "2", "0", "2", "5", "-", "0", "1", "-", "0", "1", " ", "1",
                 "2", ":", "0", "0", ":", "0", "0" >>

\* lines 874-877: "## Message <i>\n\n**User:** <user_msg>\n\n"
\* "**Assistant:** <bot_msg>\n\n" and the rule
ExportBlock(i, turn) ==
    <<"#", "#", " ", "M", "e", "s", "s", "a", "g", "e", " ">>
    \o str_int(i) \o <<"\n", "\n">>
    \o <<"*", "*", "U", "s", "e", "r", ":", "*", "*", " ">>
    \o turn[1] \o <<"\n", "\n">>
    \o << "*", "*", "A", "s", "s", "i", "s", "t", "a", "n", "t", ":", "*", "*",
          " " >>
    \o turn[2] \o <<"\n", "\n">>
    \o repeat("-", BlockRule) \o <<"\n", "\n">>

\* ExportBlocks without the last turn
RECURSIVE ExportBlocks_short(_, _)
ExportBlocks_short(history, i) ==
    IF i >= Len(history) THEN << >>
    ELSE ExportBlock(i, history[i]) \o ExportBlocks_short(history, i + 1)

\* lines 873-877, blocks i..len(history)
RECURSIVE ExportBlocks(_, _)
ExportBlocks(history, i) ==
    IF i > Len(history) THEN << >>
    ELSE ExportBlock(i, history[i]) \o ExportBlocks(history, i + 1)

\* lines 868-877: "# GAIA Agent Conversation Export\n", "Export Date: ...\n",
\* "Total Messages: <len(history)>\n\n", the rule, then the blocks
export_content(history) ==
    << "#", " ", "G", "A", "I", "A", " ", "A", "g", "e", "n", "t", " ", "C",
       "o", "n", "v", "e", "r", "s", "a", "t", "i", "o", "n", " ", "E", "x",
       "p", "o", "r", "t", "\n" >>
    \o <<"E", "x", "p", "o", "r", "t", " ", "D", "a", "t", "e", ":", " ">>
    \o ExportDate \o <<"\n">>
    \o << "T", "o", "t", "a", "l", " ", "M", "e", "s", "s", "a", "g", "e", "s",
          ":", " " >>
    \o str_int(Len(history)) \o <<"\n", "\n">>
    \o repeat("=", HeaderRule) \o <<"\n", "\n">>
    \o ExportBlocks(history, 1)

\* temp_file.name: a fresh name with the suffix of line 882
ExportPath ==
    << "/", "t", "m", "p", "/", "t", "m", "p", "q", "1", "w", "2", "e", "3",
       "_", "g", "a", "i", "a", "_", "c", "h", "a", "t", "_", "e", "x", "p",
       "o", "r", "t", "_" >>
    \o ExportTimestamp
    \o <<".", "m", "d">>

\* lines 855-894: the returned path and the file written; io_fails says that
\* creating or writing the temporary file raises
export_conversation(history, io_fails) ==
    IF history = << >> THEN [ret |-> None, written |-> None]
    ELSE IF io_fails THEN [ret |-> None, written |-> None]
    ELSE [ret |-> Some(ExportPath), written |-> Some(export_content(history))]

----------------------------------------------------------------------------
(* The inputs the model draws from                                          *)

\* /tmp/a.csv holding "1,2"
File_csv ==
    [path |-> <<"/", "t", "m", "p", "/", "a", ".", "c", "s", "v">>,
     exists |-> TRUE, data |-> << 49, 44, 50 >>, fail |-> "none",
     msg |-> EmptyStr]

\* /tmp/n.TXT holding "hi"
File_txt ==
    [path |-> <<"/", "t", "m", "p", "/", "n", ".", "T", "X", "T">>,
     exists |-> TRUE, data |-> << 104, 105 >>, fail |-> "none",
     msg |-> EmptyStr]

\* /tmp/gone.png, which does not exist
File_missing ==
    [path |-> << "/", "t", "m", "p", "/", "g", "o", "n", "e", ".", "p", "n",
                 "g" >>,
     exists |-> FALSE, data |-> << >>, fail |-> "none", msg |-> EmptyStr]

\* /tmp/l.json, whose open() raises "[Errno 13] Permission denied"
File_locked ==
    [path |-> <<"/", "t", "m", "p", "/", "l", ".", "j", "s", "o", "n">>,
     exists |-> TRUE, data |-> << 123, 125 >>, fail |-> "open",
     msg |-> << "[", "E", "r", "r", "n", "o", " ", "1", "3", "]", " ", "P",
                "e", "r", "m", "i", "s", "s", "i", "o", "n", " ", "d", "e",
                "n", "i", "e", "d" >>]

\* /tmp/i.png holding the byte 0xFF
File_png ==
    [path |-> <<"/", "t", "m", "p", "/", "i", ".", "p", "n", "g">>,
     exists |-> TRUE, data |-> << 255 >>, fail |-> "none", msg |-> EmptyStr]

\* a falsy path
File_falsy ==
    [path |-> EmptyStr, exists |-> FALSE, data |-> << >>,
     fail |-> "none", msg |-> EmptyStr]

Files == { File_csv, File_txt, File_missing, File_locked, File_png, File_falsy }

\* the longest upload list drawn
MaxUploads == 2

RECURSIVE SeqsUpTo(_, _)
SeqsUpTo(S, n) ==
    IF n = 0 THEN { << >> }
    ELSE SeqsUpTo(S, n - 1)
         \cup { Append(s, x) : s \in { t \in SeqsUpTo(S, n - 1) : Len(t) = n - 1 }, x \in S }

Uploads == { None } \cup { Some(s) : s \in SeqsUpTo(Files, MaxUploads) }

\* /tmp/v.pdf, which is gone by the time os.path.getsize is called
File_vanished ==
    [path |-> <<"/", "t", "m", "p", "/", "v", ".", "p", "d", "f">>,
     exists |-> TRUE, data |-> << >>, fail |-> "getsize",
     msg |-> << "[", "E", "r", "r", "n", "o", " ", "2", "]", " ", "N", "o",
                " ", "s", "u", "c", "h", " ", "f", "i", "l", "e", " ", "o",
                "r", " ", "d", "i", "r", "e", "c", "t", "o", "r", "y" >>]

\* /tmp/b.md holding the byte 0xFF, which is not UTF-8
File_badtxt ==
    [path |-> <<"/", "t", "m", "p", "/", "b", ".", "m", "d">>,
     exists |-> TRUE, data |-> << 255 >>, fail |-> "none", msg |-> EmptyStr]

\* /tmp/d.docx, which cannot be opened for reading
File_docx ==
    [path |-> <<"/", "t", "m", "p", "/", "d", ".", "d", "o", "c", "x">>,
     exists |-> TRUE, data |-> << 80, 75 >>, fail |-> "open",
     msg |-> << "[", "E", "r", "r", "n", "o", " ", "1", "3", "]", " ", "P",
                "e", "r", "m", "i", "s", "s", "i", "o", "n", " ", "d", "e",
                "n", "i", "e", "d" >>]

\* the files the upload lists of the file-level runs are made of
FileSamples == Files \cup { File_vanished, File_badtxt, File_docx }

\* the extensions lines 99-123 name
KnownExtSamples ==
    { <<".", "j", "p", "g">>,
      <<".", "j", "p", "e", "g">>,
      <<".", "p", "n", "g">>,
      <<".", "g", "i", "f">>,
      <<".", "b", "m", "p">>,
      <<".", "w", "e", "b", "p">>,
      <<".", "t", "x", "t">>,
      <<".", "m", "d">>,
      <<".", "p", "y">>,
      <<".", "j", "s">>,
      <<".", "h", "t", "m", "l">>,
      <<".", "c", "s", "s">>,
      <<".", "j", "s", "o", "n">>,
      <<".", "x", "m", "l">>,
      <<".", "c", "s", "v">>,
      <<".", "x", "l", "s", "x">>,
      <<".", "x", "l", "s">>,
      <<".", "p", "d", "f">> }

\* the same in upper case
UpperExtSamples ==
    { <<".", "J", "P", "G">>,
      <<".", "J", "P", "E", "G">>,
      <<".", "P", "N", "G">>,
      <<".", "G", "I", "F">>,
      <<".", "B", "M", "P">>,
      <<".", "W", "E", "B", "P">>,
      <<".", "T", "X", "T">>,
      <<".", "M", "D">>,
      <<".", "P", "Y">>,
      <<".", "J", "S">>,
      <<".", "H", "T", "M", "L">>,
      <<".", "C", "S", "S">>,
      <<".", "J", "S", "O", "N">>,
      <<".", "X", "M", "L">>,
      <<".", "C", "S", "V">>,
      <<".", "X", "L", "S", "X">>,
      <<".", "X", "L", "S">>,
      <<".", "P", "D", "F">> }

\* mixed case, extensions no branch names, and no extension
OtherExtSamples ==
    { <<".", "J", "p", "e", "g">>,
      <<".", "M", "d">>,
      <<".", "C", "s", "v">>,
      <<".", "x", "L", "s">>,
      <<".", "P", "d", "f">>,
      <<".", "D", "O", "C", "X">>,
      <<".", "d", "o", "c">>,
      <<".", "d", "o", "c", "x">>,
      <<".", "z", "i", "p">>,
      <<".", "t", "a", "r", ".", "g", "z">> }

ExtSamples ==
    KnownExtSamples \cup UpperExtSamples \cup OtherExtSamples \cup { EmptyStr }

\* /tmp/f<ext> holding data; fail names the call that raises on it, if any
SampleFile(ext, data, fail) ==
    [path |-> <<"/", "t", "m", "p", "/", "f">> \o ext,
     exists |-> TRUE, data |-> data, fail |-> fail,
     msg |-> IF fail = "none" THEN EmptyStr
             ELSE << "[", "E", "r", "r", "n", "o", " ", "1", "3", "]", " ",
                     "P", "e", "r", "m", "i", "s", "s", "i", "o", "n", " ",
                     "d", "e", "n", "i", "e", "d" >>]

\* one file per extension, holding "hi" or the byte 0xFF, readable or not
ExtFiles ==
    { SampleFile(ext, data, fail) :
        ext \in ExtSamples, data \in { << 104, 105 >>, << 255 >> },
        fail \in { "none", "open", "getsize" } }

FileUploads ==
    { Some(s) : s \in SeqsUpTo(FileSamples, MaxUploads) }
    \cup { Some(<< f >>) : f \in ExtFiles }

\* "" and "hi"
FileQuestions == { Some(EmptyStr), Some(<<"h", "i">>) }

\* None, "", " \n", "2+2?", "hi "
Questions ==
    { None,
      Some(EmptyStr),
      Some(<<" ", "\n">>),
      Some(<<"2", "+", "2", "?">>),
      Some(<<"h", "i", " ">>) }

\* "Assistant: 4", "Assistant: Assistant: 4", "Assistant:4", "4",
\* "Assistant: ", "assistant: 4", " Assistant: 4"
AnswerContents ==
    { <<"A", "s", "s", "i", "s", "t", "a", "n", "t", ":", " ", "4">>,
      << "A", "s", "s", "i", "s", "t", "a", "n", "t", ":", " ", "A", "s", "s",
         "i", "s", "t", "a", "n", "t", ":", " ", "4" >>,
      <<"A", "s", "s", "i", "s", "t", "a", "n", "t", ":", "4">>,
      <<"4">>,
      <<"A", "s", "s", "i", "s", "t", "a", "n", "t", ":", " ">>,
      <<"a", "s", "s", "i", "s", "t", "a", "n", "t", ":", " ", "4">>,
      <<" ", "A", "s", "s", "i", "s", "t", "a", "n", "t", ":", " ", "4">> }

Returns(messages) == [raises |-> FALSE, msg |-> EmptyStr, messages |-> messages]

Raises(msg) == [raises |-> TRUE, msg |-> msg, messages |-> << >>]

\* an earlier message of a reply: "Assistant: 9"
EarlierContent ==
    <<"A", "s", "s", "i", "s", "t", "a", "n", "t", ":", " ", "9">>

\* raise "boom", return no message, one message, or two
AgentOutcomes ==
    { Raises(<<"b", "o", "o", "m">>), Returns(<< >>) }
    \cup { Returns(<< c >>) : c \in AnswerContents }
    \cup { Returns(<< EarlierContent, c >>) : c \in AnswerContents }

\* the longest history a call starts from
MaxPrior == 2

\* ("hi", "hello") and ("q", "Error processing question: boom"), in turn
PriorTurn(i) ==
    IF i % 2 = 1
    THEN << <<"h", "i">>, <<"h", "e", "l", "l", "o">> >>
    ELSE << <<"q">>, ErrorMsg(<<"b", "o", "o", "m">>) >>

RECURSIVE PriorHistory(_)
PriorHistory(n) ==
    IF n = 0 THEN << >> ELSE Append(PriorHistory(n - 1), PriorTurn(n))

PriorHistories == { PriorHistory(n) : n \in 0..MaxPrior }

\* the turns of the histories that are exported: ("hi", "hello"),
\* ("q", "Error processing question: boom"), ("", "4") and ("2+2?", "4")
ExportTurns ==
    { PriorTurn(1), PriorTurn(2),
      << EmptyStr, <<"4">> >>,
      << <<"2", "+", "2", "?">>, <<"4">> >> }

ExportHistories == SeqsUpTo(ExportTurns, MaxPrior)

----------------------------------------------------------------------------
(* State                                                                    *)

VARIABLES
    chatbot_interface,     \* gr.Chatbot value: the displayed history
    question_input,        \* gr.Textbox value
    file_upload,           \* gr.File value: Optional list of uploaded files
    download_file,         \* hidden gr.File: Optional path of the last export
    export_written,        \* Optional content of the file the last export wrote
    conversation_history,  \* QnAChatbot.conversation_history
    inflight,              \* per event listener: the submission accepted and
                           \* not yet completed, with the input values it
                           \* was dispatched with
    invoke_count,          \* calls of self.graph.invoke so far
    started,               \* submissions accepted so far
    submitted,             \* submissions accepted since the last clear
    recorded,              \* turns appended by submissions completed since
                           \* the last clear
    call                   \* a single call of one operation: its arguments,
                           \* the agent's behaviour and its outcome

uiVars ==
    << chatbot_interface, question_input, file_upload, download_file,
       export_written, conversation_history, inflight, invoke_count, started,
       submitted, recorded >>

vars ==
    << chatbot_interface, question_input, file_upload, download_file,
       export_written, conversation_history, inflight, invoke_count, started,
       submitted, recorded, call >>

\* the two listeners that run submit_question (lines 897-909)
Listeners == { "submit_btn.click", "question_input.submit" }

Idle == [busy |-> FALSE, question |-> None, history |-> << >>, files |-> None]

NoCall ==
    [pc |-> "none", op |-> "none", question |-> None, history |-> << >>,
     uploaded_files |-> None, agent |-> Returns(<< >>), io_fails |-> FALSE,
     opened |-> << >>,
     out |-> Outcome(FALSE, FALSE, << >>, << >>, EmptyStr, << >>)]

\* QnAChatbot.__init__ (lines 12-17) and the components as constructed
UIInit ==
    /\ chatbot_interface = << >>
    /\ question_input = Some(EmptyStr)
    /\ file_upload = None
    /\ download_file = None
    /\ export_written = None
    /\ conversation_history = << >>
    /\ inflight = [l \in Listeners |-> Idle]
    /\ invoke_count = 0
    /\ started = 0
    /\ submitted = 0
    /\ recorded = 0

----------------------------------------------------------------------------
(* The session: the handlers of create_qna_interface, dispatched by the     *)
(* event listeners of lines 897-928.  A listener takes the values of its    *)
(* input components when the event is accepted and writes the handler's     *)
(* return values to its output components when the handler returns; the     *)
(* source states no lock, queue or concurrency limit over the listeners.    *)

\* what the user can type and upload in a session
\* "" and "hi"
UIQuestions == { Some(EmptyStr), Some(<<"h", "i">>) }

UIUploads == { Some(<< File_csv >>) }

\* raise "boom", or answer "Assistant: 4"
UIAgentOutcomes ==
    { Raises(<<"b", "o", "o", "m">>),
      Returns(<< << "A", "s", "s", "i", "s", "t", "a", "n", "t", ":", " ", "4" >> >>) }

\* submissions accepted in one run of the session
MaxSubmissions == 2

Init == UIInit /\ call = NoCall

TypeQuestion(q) ==
    /\ question_input # q
    /\ question_input' = q
    /\ UNCHANGED << chatbot_interface, file_upload, download_file,
                    export_written, conversation_history, inflight,
                    invoke_count, started, submitted, recorded, call >>

UploadFiles(u) ==
    /\ file_upload # u
    /\ file_upload' = u
    /\ UNCHANGED << chatbot_interface, question_input, download_file,
                    export_written, conversation_history, inflight,
                    invoke_count, started, submitted, recorded, call >>

\* a listener accepts a Send click or an Enter in the textbox: inputs of
\* lines 899 / 906
StartSubmit(l) ==
    /\ ~inflight[l].busy
    /\ started < MaxSubmissions
    /\ inflight' = [inflight EXCEPT ![l] =
                       [busy |-> TRUE, question |-> question_input,
                        history |-> chatbot_interface, files |-> file_upload]]
    /\ started' = started + 1
    /\ submitted' = submitted + 1
    /\ UNCHANGED << chatbot_interface, question_input, file_upload,
                    download_file, export_written, conversation_history,
                    invoke_count, recorded, call >>

\* submit_question (lines 839-845) returns: outputs of lines 900 / 907.  An
\* exception that leaves the handler leaves the components as they are.
FinishSubmit(l, agent) ==
    /\ inflight[l].busy
    /\ LET out == submit_question(inflight[l].question, inflight[l].history,
                                  inflight[l].files, agent)
       IN  /\ invoke_count' = invoke_count + Len(out.invoked)
           /\ IF out.raised
              THEN UNCHANGED << question_input, chatbot_interface, file_upload,
                                recorded >>
              ELSE /\ question_input' = Some(out.ret[1])
                   /\ chatbot_interface' = out.ret[2]
                   /\ file_upload' = out.ret[3]
                   /\ recorded' = recorded
                                  + (Len(out.ret[2]) - Len(inflight[l].history))
    /\ conversation_history' =
           conversation_history_after(conversation_history, inflight[l].history)
    /\ inflight' = [inflight EXCEPT ![l] = Idle]
    /\ UNCHANGED << download_file, export_written, started, submitted, call >>

\* clear_conversation (lines 847-849), listener of lines 911-915
ClearConversation ==
    /\ conversation_history' = clear_history.conversation_history
    /\ chatbot_interface' = clear_history.ret
    /\ submitted' = 0
    /\ recorded' = 0
    /\ UNCHANGED << question_input, file_upload, download_file, export_written,
                    inflight, invoke_count, started, call >>

\* clear_files (lines 851-853), listener of lines 917-921
ClearFiles ==
    /\ file_upload' = None
    /\ UNCHANGED << chatbot_interface, question_input, download_file,
                    export_written, conversation_history, inflight,
                    invoke_count, started, submitted, recorded, call >>

\* export_conversation (lines 855-894), listener of lines 923-928
ExportConversation(io_fails) ==
    /\ LET e == export_conversation(chatbot_interface, io_fails)
       IN  /\ download_file' = e.ret
           /\ export_written' = IF e.written.none THEN export_written
                                ELSE e.written
    /\ UNCHANGED << chatbot_interface, question_input, file_upload,
                    conversation_history, inflight, invoke_count, started,
                    submitted, recorded, call >>

Next ==
    \/ \E q \in UIQuestions : TypeQuestion(q)
    \/ \E u \in UIUploads : UploadFiles(u)
    \/ \E l \in Listeners : StartSubmit(l)
    \/ \E l \in Listeners, agent \in UIAgentOutcomes : FinishSubmit(l, agent)
    \/ ClearConversation
    \/ ClearFiles
    \/ \E io_fails \in BOOLEAN : ExportConversation(io_fails)

Spec == Init /\ [][Next]_vars

----------------------------------------------------------------------------
(* Single calls: the arguments and the agent's behaviour are drawn from the *)
(* input sets, and one operation is applied to them.                        *)

CallInit ==
    /\ UIInit
    /\ call \in [pc : {"ready"}, op : {"none"}, question : Questions,
                 history : PriorHistories, uploaded_files : Uploads,
                 agent : AgentOutcomes, io_fails : {FALSE}, opened : {<< >>},
                 out : {NoCall.out}]

CallProcessQuestion ==
    /\ call.pc = "ready"
    /\ call' = [call EXCEPT !.pc = "done", !.op = "process_question",
                   !.opened = process_question_opens(call.question,
                                                     call.uploaded_files),
                   !.out = process_question(call.question, call.history,
                                            call.uploaded_files, call.agent)]
    /\ conversation_history' =
           conversation_history_after(conversation_history, call.history)
    /\ UNCHANGED << chatbot_interface, question_input, file_upload,
                    download_file, export_written, inflight, invoke_count,
                    started, submitted, recorded >>

\* submit_question (lines 839-845) on the same arguments
CallSubmitQuestion ==
    /\ call.pc = "ready"
    /\ call' = [call EXCEPT !.pc = "done", !.op = "submit_question",
                   !.opened = process_question_opens(call.question,
                                                     call.uploaded_files),
                   !.out = submit_question(call.question, call.history,
                                           call.uploaded_files, call.agent)]
    /\ conversation_history' =
           conversation_history_after(conversation_history, call.history)
    /\ UNCHANGED << chatbot_interface, question_input, file_upload,
                    download_file, export_written, inflight, invoke_count,
                    started, submitted, recorded >>

\* clear_history makes no call of self.graph.invoke
CallClearHistory ==
    /\ call.pc = "ready"
    /\ call' = [call EXCEPT !.pc = "done", !.op = "clear_history",
                   !.out = Outcome(FALSE, FALSE, clear_history.ret, << >>,
                                   EmptyStr, << >>)]
    /\ conversation_history' = clear_history.conversation_history
    /\ UNCHANGED << chatbot_interface, question_input, file_upload,
                    download_file, export_written, inflight, invoke_count,
                    started, submitted, recorded >>

\* clear_files returns None and makes no call of self.graph.invoke
CallClearFiles ==
    /\ call.pc = "ready"
    /\ call' = [call EXCEPT !.pc = "done", !.op = "clear_files",
                   !.out = Outcome(FALSE, FALSE, None, << >>, EmptyStr, << >>)]
    /\ UNCHANGED uiVars

\* export_conversation makes no call of self.graph.invoke
CallExport(io_fails) ==
    /\ call.pc = "ready"
    /\ LET e == export_conversation(call.history, io_fails)
       IN  /\ call' = [call EXCEPT !.pc = "done", !.op = "export_conversation",
                          !.io_fails = io_fails,
                          !.out = Outcome(FALSE, FALSE, e.ret, << >>, EmptyStr,
                                          << >>)]
           /\ export_written' = e.written
    /\ UNCHANGED << chatbot_interface, question_input, file_upload,
                    download_file, conversation_history, inflight, invoke_count,
                    started, submitted, recorded >>

CallNext ==
    \/ CallProcessQuestion
    \/ CallSubmitQuestion
    \/ CallClearHistory
    \/ CallClearFiles
    \/ \E io_fails \in BOOLEAN : CallExport(io_fails)

CallSpec == CallInit /\ [][CallNext]_vars

\* single calls on the upload lists of the file-level runs, with an empty
\* history and an agent that answers "4"
FileInit ==
    /\ UIInit
    /\ call \in [pc : {"ready"}, op : {"none"}, question : FileQuestions,
                 history : {<< >>}, uploaded_files : FileUploads,
                 agent : {Returns(<< <<"4">> >>)},
                 io_fails : {FALSE}, opened : {<< >>}, out : {NoCall.out}]

FileSpec == FileInit /\ [][CallNext]_vars

\* single calls on the histories that are exported, with the question "hi",
\* no files and an agent that answers "4"
ExportInit ==
    /\ UIInit
    /\ call \in [pc : {"ready"}, op : {"none"},
                 question : {Some(<<"h", "i">>)},
                 history : ExportHistories, uploaded_files : {None},
                 agent : {Returns(<< <<"4">> >>)},
                 io_fails : {FALSE}, opened : {<< >>}, out : {NoCall.out}]

ExportSpec == ExportInit /\ [][CallNext]_vars

----------------------------------------------------------------------------
(* Properties of a single call of process_question (CallSpec)               *)

\* the call made was process_question and has ended
PQDone == call.pc = "done" /\ call.op = "process_question"

\* the question argument, when it is a string
Text == call.question.v

\* the fragments the uploaded files of the call produce
GivenFragments ==
    IF call.uploaded_files.none THEN << >>
    ELSE file_contexts(call.uploaded_files.v)

\* graph.invoke was called
Invoked == call.out.invoked # << >>

\* the content of the message the first graph.invoke call was given
SentPrompt == call.out.invoked[1][1].content

\* the turn at the end of the returned history
LastTurn == call.out.ret[2][Len(call.out.ret[2])]

\* graph.invoke returned, with at least one message
Answered == Invoked /\ ~call.agent.raises /\ call.agent.messages # << >>

\* the content of the last message the agent returned
LastGiven == call.agent.messages[Len(call.agent.messages)]

\* every character of s is whitespace
Blank(s) == \A i \in 1..Len(s) : s[i] \in Whitespace

\* C1: whenever graph.invoke raises, process_question returns the pair
\* ("", history) instead of raising, and the returned history is the one
\* passed in followed by exactly one turn: (the prompt that was sent,
\* "Error processing question: " + str(e)).
C1_InvokeErrorRecorded ==
    (PQDone /\ Invoked /\ call.agent.raises) =>
        /\ ~call.out.raised
        /\ Len(call.out.ret) = 2
        /\ call.out.ret[1] = EmptyStr
        /\ call.out.ret[2] = Append(call.history, LastTurn)
        /\ LastTurn[1] = SentPrompt
        /\ LastTurn[2] = << "E", "r", "r", "o", "r", " ", "p", "r", "o", "c",
                            "e", "s", "s", "i", "n", "g", " ", "q", "u", "e",
                            "s", "t", "i", "o", "n", ":", " " >>
                         \o call.agent.msg

\* C1 witness: the agent raised "boom" on a call with a non-blank question,
\* files that produce fragments and a non-empty history.
C1_Witness ==
    /\ PQDone /\ Invoked /\ call.agent.raises
    /\ call.history # << >>
    /\ GivenFragments # << >>
    /\ ~Blank(Text)
    /\ LastTurn[2] = << "E", "r", "r", "o", "r", " ", "p", "r", "o", "c", "e",
                        "s", "s", "i", "n", "g", " ", "q", "u", "e", "s", "t",
                        "i", "o", "n", ":", " ", "b", "o", "o", "m" >>

\* C2 (as claimed): a call whose text is empty (read in the claim's favour
\* as: holds no non-whitespace character) and whose files produce no
\* fragment is rejected (no graph.invoke call, history returned unchanged),
\* and every call with text or a fragment invokes the agent exactly once.
C2_RejectsIffBothEmpty ==
    (PQDone /\ ~call.question.none) =>
        IF Blank(Text) /\ GivenFragments = << >>
        THEN /\ ~Invoked
             /\ ~call.out.raised
             /\ call.out.ret = << EmptyStr, call.history >>
        ELSE Len(call.out.invoked) = 1

\* C3 (as claimed): non-empty text and fragments give text + "\n\n" + the
\* joined fragments; empty text gives the joined fragments; no fragments
\* give the text.
C3_PromptAsClaimed ==
    (PQDone /\ Invoked) =>
        LET joined == join(<<"\n", "\n">>, GivenFragments)
        IN  /\ (Text # EmptyStr /\ GivenFragments # << >>) =>
                   SentPrompt = Text \o <<"\n", "\n">> \o joined
            /\ (Text = EmptyStr) => SentPrompt = joined
            /\ (GivenFragments = << >>) => SentPrompt = Text

\* C3 (amended): the prompt sent to the agent depends on the text and the
\* ordered fragments only.  Text holding a non-whitespace character and
\* fragments give text + "\n\n" + the fragments joined by "\n\n"; empty or
\* whitespace-only text and fragments give exactly the joined fragments; no
\* fragments give exactly the text, unchanged.
C3_PromptComposition ==
    (PQDone /\ Invoked) =>
        LET joined == join(<<"\n", "\n">>, GivenFragments)
        IN  /\ (~Blank(Text) /\ GivenFragments # << >>) =>
                   SentPrompt = Text \o <<"\n", "\n">> \o joined
            /\ (Blank(Text) /\ GivenFragments # << >>) => SentPrompt = joined
            /\ (GivenFragments = << >>) => SentPrompt = Text

\* C3 witness: whitespace-only text with two files that each produce a
\* fragment; the prompt sent is the two fragments joined.
C3_Witness ==
    /\ PQDone /\ Invoked
    /\ Text # EmptyStr /\ Blank(Text)
    /\ Len(GivenFragments) = 2
    /\ SentPrompt = GivenFragments[1] \o <<"\n", "\n">> \o GivenFragments[2]

\* C4: a call of process_question that returns never edits, reorders or
\* removes a turn: a call that passes the empty-input gate returns the
\* history passed in followed by exactly one new turn (agent success or
\* failure alike), and a rejected call returns it unchanged.
C4_AppendOnly ==
    (PQDone /\ ~call.out.raised) =>
        IF call.out.rejected
        THEN call.out.ret[2] = call.history
        ELSE /\ Len(call.out.ret[2]) = Len(call.history) + 1
             /\ SubSeq(call.out.ret[2], 1, Len(call.history)) = call.history

\* C4 witness: a call whose agent raised, starting from a history of two
\* turns, returned three turns.
C4_Witness ==
    /\ PQDone /\ Invoked /\ call.agent.raises
    /\ Len(call.history) = 2
    /\ Len(call.out.ret[2]) = 3

\* C6 (as claimed): no call of process_question lets an exception out.
C6_NeverPropagates == PQDone => ~call.out.raised

\* C7: when graph.invoke returns, the appended turn is (the prompt sent, the
\* content of the last returned message without its "Assistant: " prefix);
\* without files the request is the user's text; "2+2?" answered by
\* "Assistant: 4" records ("2+2?", "4").
C7_AnswerTurn ==
    (PQDone /\ Answered) =>
        /\ LastTurn[1] = SentPrompt
        /\ LastTurn[2] = CleanAnswer(LastGiven)
        /\ ~FilesGiven(call.uploaded_files) => LastTurn[1] = Text
        /\ ( /\ Text = <<"2", "+", "2", "?">>
             /\ ~FilesGiven(call.uploaded_files)
             /\ LastGiven = << "A", "s", "s", "i", "s", "t", "a", "n", "t",
                               ":", " ", "4" >> )
           => LastTurn = << <<"2", "+", "2", "?">>, <<"4">> >>

\* C7 witness: the example, with the answer after an earlier message.
C7_Witness ==
    /\ PQDone /\ Answered
    /\ Text = <<"2", "+", "2", "?">>
    /\ call.uploaded_files.none
    /\ call.agent.messages[1] = EarlierContent
    /\ call.agent.messages[2] = << "A", "s", "s", "i", "s", "t", "a", "n", "t",
                                   ":", " ", "4" >>
    /\ LastTurn = << <<"2", "+", "2", "?">>, <<"4">> >>

\* C8: an answer that begins with "Assistant: " is recorded without its
\* first 11 characters and otherwise as it is; an answer that does not begin
\* with it is recorded unchanged.
C8_PrefixStripped ==
    (PQDone /\ Answered) =>
        LET a == LastGiven
            r == LastTurn[2]
        IN  IF Len(a) >= 11 /\ SubSeq(a, 1, 11) = << "A", "s", "s", "i", "s",
                                                     "t", "a", "n", "t", ":",
                                                     " " >>
            THEN /\ Len(r) = Len(a) - 11
                 /\ \A i \in 1..Len(r) : r[i] = a[i + 11]
            ELSE r = a

\* C8 witness: "Assistant: Assistant: 4" is recorded as "Assistant: 4".
C8_Witness ==
    /\ PQDone /\ Answered
    /\ LastGiven = << "A", "s", "s", "i", "s", "t", "a", "n", "t", ":", " ",
                      "A", "s", "s", "i", "s", "t", "a", "n", "t", ":", " ",
                      "4" >>
    /\ LastTurn[2] = << "A", "s", "s", "i", "s", "t", "a", "n", "t", ":", " ",
                        "4" >>

----------------------------------------------------------------------------
(* Properties of the session (Spec)                                         *)

\* C5 (as claimed): the displayed history never holds more turns than
\* submissions were made since the last clear.
C5_TurnsAtMostSubmissions == Len(chatbot_interface) <= submitted

\* at most one submission is accepted and not yet completed
NoOverlap == Cardinality({ l \in Listeners : inflight[l].busy }) <= 1

\* the displayed history holds every turn that the submissions completed
\* since the last clear have appended
NoTurnLost == Len(chatbot_interface) >= recorded

\* C10 (as claimed): submissions are serialized, so at most one submission is
\* in flight at any time and no turn appended by a completed submission is
\* lost from the displayed history.
C10_Serialized == NoOverlap /\ NoTurnLost


----------------------------------------------------------------------------
(* Properties of _process_uploaded_files, as process_question calls it      *)
(* (FileSpec)                                                               *)

\* the call reached lines 32-33 and processed its upload list
FilesProcessed ==
    /\ PQDone
    /\ ~call.question.none
    /\ FilesGiven(call.uploaded_files)

\* the upload list of the call
UploadList == call.uploaded_files.v

\* the path is truthy and exists
Present(f) == f.path # << >> /\ f.exists

\* the number of present files among the first i of the upload list: the
\* position the fragment of file i has among the fragments
Rank(i) == Cardinality({ j \in 1..i : Present(UploadList[j]) })

\* the fragment at the position of file i
FragmentOf(i) == call.out.fragments[Rank(i)]

\* the lower-cased extension of the file's name
ExtOf(f) == lower(splitext_ext(basename(f.path)))

\* the extensions the claims call image and text/code
ImageKinds ==
    { <<".", "j", "p", "g">>,
      <<".", "j", "p", "e", "g">>,
      <<".", "p", "n", "g">>,
      <<".", "g", "i", "f">>,
      <<".", "b", "m", "p">>,
      <<".", "w", "e", "b", "p">> }

TextKinds ==
    { <<".", "t", "x", "t">>,
      <<".", "m", "d">>,
      <<".", "p", "y">>,
      <<".", "j", "s">>,
      <<".", "h", "t", "m", "l">>,
      <<".", "c", "s", "s">>,
      <<".", "j", "s", "o", "n">>,
      <<".", "x", "m", "l">> }

\* the label of the path-only fragment of an extension
PathLabel(ext) ==
    IF ext = <<".", "c", "s", "v">>
    THEN << "[", "U", "P", "L", "O", "A", "D", "E", "D", " ", "C", "S", "V",
            " ", "F", "I", "L", "E", ":", " " >>
    ELSE IF ext \in { <<".", "x", "l", "s", "x">>,
                      <<".", "x", "l", "s">> }
    THEN << "[", "U", "P", "L", "O", "A", "D", "E", "D", " ", "E", "X", "C",
            "E", "L", " ", "F", "I", "L", "E", ":", " " >>
    ELSE IF ext = <<".", "p", "d", "f">>
    THEN << "[", "U", "P", "L", "O", "A", "D", "E", "D", " ", "P", "D", "F",
            " ", "F", "I", "L", "E", ":", " " >>
    ELSE << "[", "U", "P", "L", "O", "A", "D", "E", "D", " ", "F", "I", "L",
            "E", ":", " " >>

\* "<label><name>] - File path: <path>"
PathOnly(f) ==
    PathLabel(ExtOf(f))
    \o basename(f.path)
    \o << "]", " ", "-", " ", "F", "i", "l", "e", " ", "p", "a", "t", "h", ":",
          " " >>
    \o f.path

\* C11: every existing file that is processed without a failure contributes
\* the fragment of the kind its lower-cased extension names: an image
\* extension gives "[UPLOADED IMAGE: <name>] - Base64 data: <encoded>", a
\* text/code extension "[UPLOADED TEXT FILE: <name>]\nContent:\n<content>",
\* .csv, .xlsx/.xls and .pdf the path-only fragment with their own label, and
\* every other extension (.doc and .docx among them) the generic
\* "[UPLOADED FILE: <name>] - File path: <path>"; the spelling of the
\* extension in upper or lower case does not change the kind.
C11_ClassifiedByExtension ==
    FilesProcessed =>
        \A i \in 1..Len(UploadList) :
            LET f == UploadList[i]
                name == basename(f.path)
            IN  (/\ Present(f)
                 /\ f.fail = "none"
                 /\ (ExtOf(f) \in TextKinds => Utf8Valid(f.data))) =>
                    FragmentOf(i) =
                        IF ExtOf(f) \in ImageKinds
                        THEN << "[", "U", "P", "L", "O", "A", "D", "E", "D",
                                " ", "I", "M", "A", "G", "E", ":", " " >>
                             \o name
                             \o << "]", " ", "-", " ", "B", "a", "s", "e", "6",
                                   "4", " ", "d", "a", "t", "a", ":", " " >>
                             \o b64encode(f.data)
                        ELSE IF ExtOf(f) \in TextKinds
                        THEN << "[", "U", "P", "L", "O", "A", "D", "E", "D",
                                " ", "T", "E", "X", "T", " ", "F", "I", "L",
                                "E", ":", " " >>
                             \o name
                             \o << "]", "\n", "C", "o", "n", "t", "e", "n",
                                   "t", ":", "\n" >>
                             \o utf8_decode(f.data)
                        ELSE PathOnly(f)

\* C11 witness: /tmp/f.WEBP holding "hi" was classified as an image.
C11_Witness ==
    /\ FilesProcessed
    /\ Len(UploadList) = 1
    /\ UploadList[1].path = << "/", "t", "m", "p", "/", "f", ".", "W", "E",
                               "B", "P" >>
    /\ call.out.fragments =
           << << "[", "U", "P", "L", "O", "A", "D", "E", "D", " ", "I", "M",
                 "A", "G", "E", ":", " ", "f", ".", "W", "E", "B", "P", "]",
                 " ", "-", " ", "B", "a", "s", "e", "6", "4", " ", "d", "a",
                 "t", "a", ":", " ", "a", "G", "k", "=" >> >>

\* processing the file raises inside the try of line 91: os.path.getsize or
\* open raises, or a text file does not decode
Fails(f) ==
    \/ f.fail = "getsize"
    \/ ExtOf(f) \in ImageKinds \cup TextKinds /\ f.fail = "open"
    \/ ExtOf(f) \in TextKinds /\ ~Utf8Valid(f.data)

\* "[ERROR PROCESSING FILE: <name>] - "
ErrorHead(f) ==
    << "[", "E", "R", "R", "O", "R", " ", "P", "R", "O", "C", "E", "S", "S",
       "I", "N", "G", " ", "F", "I", "L", "E", ":", " " >>
    \o basename(f.path)
    \o <<"]", " ", "-", " ">>

\* C12: a file whose processing fails never makes the call raise: it
\* contributes exactly one fragment "[ERROR PROCESSING FILE: <name>] -
\* <message>" at its position, and the files after it are still processed,
\* so that the fragments are as many as the present files.
C12_FileFailureContained ==
    FilesProcessed =>
        /\ ~call.out.raised
        /\ Len(call.out.fragments) = Rank(Len(UploadList))
        /\ \A i \in 1..Len(UploadList) :
               LET f == UploadList[i]
               IN  (Present(f) /\ Fails(f)) =>
                       /\ startswith(FragmentOf(i), ErrorHead(f))
                       /\ f.fail # "none" =>
                              FragmentOf(i) = ErrorHead(f) \o f.msg

\* C12 witness: /tmp/l.json could not be opened and /tmp/a.csv, after it, was
\* still processed.
C12_Witness ==
    /\ FilesProcessed
    /\ UploadList = << File_locked, File_csv >>
    /\ call.out.fragments =
           << << "[", "E", "R", "R", "O", "R", " ", "P", "R", "O", "C", "E",
                 "S", "S", "I", "N", "G", " ", "F", "I", "L", "E", ":", " ",
                 "l", ".", "j", "s", "o", "n", "]", " ", "-", " ", "[", "E",
                 "r", "r", "n", "o", " ", "1", "3", "]", " ", "P", "e", "r",
                 "m", "i", "s", "s", "i", "o", "n", " ", "d", "e", "n", "i",
                 "e", "d" >>,
              << "[", "U", "P", "L", "O", "A", "D", "E", "D", " ", "C", "S",
                 "V", " ", "F", "I", "L", "E", ":", " ", "a", ".", "c", "s",
                 "v", "]", " ", "-", " ", "F", "i", "l", "e", " ", "p", "a",
                 "t", "h", ":", " ", "/", "t", "m", "p", "/", "a", ".", "c",
                 "s", "v" >> >>

\* C13: a present file with a tabular (.csv, .xlsx, .xls), document (.pdf)
\* or unrecognised extension is never opened: whatever it holds and whether
\* or not it could be opened, its fragment is "<label><name>] - File path:
\* <path>"; only files with an image or text/code extension are opened.
\* Empty text with /tmp/a.csv sends exactly
\* "[UPLOADED CSV FILE: a.csv] - File path: /tmp/a.csv".
C13_PathOnlyKinds ==
    FilesProcessed =>
        /\ \A i \in 1..Len(UploadList) :
               LET f == UploadList[i]
               IN  (/\ Present(f)
                    /\ f.fail # "getsize"
                    /\ ExtOf(f) \notin ImageKinds \cup TextKinds) =>
                       /\ FragmentOf(i) = PathOnly(f)
                       /\ \A k \in 1..Len(call.opened) : call.opened[k] # f.path
        /\ \A k \in 1..Len(call.opened) :
               lower(splitext_ext(basename(call.opened[k])))
                   \in ImageKinds \cup TextKinds
        /\ (Text = EmptyStr /\ UploadList = << File_csv >>) =>
               SentPrompt = << "[", "U", "P", "L", "O", "A", "D", "E", "D",
                               " ", "C", "S", "V", " ", "F", "I", "L", "E",
                               ":", " ", "a", ".", "c", "s", "v", "]", " ",
                               "-", " ", "F", "i", "l", "e", " ", "p", "a",
                               "t", "h", ":", " ", "/", "t", "m", "p", "/",
                               "a", ".", "c", "s", "v" >>

\* C13 witness: /tmp/d.docx, which cannot be opened, gave its path-only
\* fragment after /tmp/n.TXT was opened and read.
C13_Witness ==
    /\ FilesProcessed
    /\ UploadList = << File_txt, File_docx >>
    /\ call.opened = << File_txt.path >>
    /\ call.out.fragments[2] =
           << "[", "U", "P", "L", "O", "A", "D", "E", "D", " ", "F", "I", "L",
              "E", ":", " ", "d", ".", "d", "o", "c", "x", "]", " ", "-", " ",
              "F", "i", "l", "e", " ", "p", "a", "t", "h", ":", " ", "/", "t",
              "m", "p", "/", "d", ".", "d", "o", "c", "x" >>

\* C16: a falsy or non-existent path is skipped silently: the call does not
\* raise and its fragments are those of the upload list without the skipped
\* paths, so a skipped path adds no fragment and no error fragment and
\* changes no other path's fragment.
C16_SkippedSilently ==
    FilesProcessed =>
        /\ ~call.out.raised
        /\ call.out.fragments = file_contexts(SelectSeq(UploadList, Present))
        /\ (\A i \in 1..Len(UploadList) : ~Present(UploadList[i])) =>
               call.out.fragments = << >>

\* C16 witness: /tmp/gone.png, which does not exist, before /tmp/a.csv: the
\* fragment of a.csv alone.
C16_Witness ==
    /\ FilesProcessed
    /\ UploadList = << File_missing, File_csv >>
    /\ call.out.fragments =
           << << "[", "U", "P", "L", "O", "A", "D", "E", "D", " ", "C", "S",
                 "V", " ", "F", "I", "L", "E", ":", " ", "a", ".", "c", "s",
                 "v", "]", " ", "-", " ", "F", "i", "l", "e", " ", "p", "a",
                 "t", "h", ":", " ", "/", "t", "m", "p", "/", "a", ".", "c",
                 "s", "v" >> >>

\* the index of the first occurrence of c in s, 0 when there is none
FirstIndexOf(s, c) ==
    IF \E i \in 1..Len(s) : s[i] = c
    THEN CHOOSE i \in 1..Len(s) : s[i] = c /\ \A j \in 1..(i - 1) : s[j] # c
    ELSE 0

\* the file name a fragment carries: what stands between the first ": " and
\* the first "]"
NameIn(fragment) ==
    SubSeq(fragment, FirstIndexOf(fragment, ":") + 2,
           FirstIndexOf(fragment, "]") - 1)

\* C19: the fragments are one per present path (truthy and existing), each
\* carrying the name of its file, in the order of the paths; the context
\* handed to the prompt is the fragments joined by "\n\n".
C19_OneFragmentPerFile ==
    FilesProcessed =>
        /\ Len(call.out.fragments) = Rank(Len(UploadList))
        /\ \A i \in 1..Len(UploadList) :
               Present(UploadList[i]) =>
                   /\ FragmentOf(i)[1] = "["
                   /\ NameIn(FragmentOf(i)) = basename(UploadList[i].path)
        /\ Blank(Text) =>
               SentPrompt = IF call.out.fragments = << >> THEN Text
                            ELSE join(<<"\n", "\n">>, call.out.fragments)

\* C19 witness: /tmp/a.csv, then /tmp/l.json (which fails), then nothing
\* else: two fragments, a.csv's first.
C19_Witness ==
    /\ FilesProcessed
    /\ UploadList = << File_csv, File_locked >>
    /\ Len(call.out.fragments) = 2
    /\ NameIn(call.out.fragments[1]) = <<"a", ".", "c", "s", "v">>
    /\ NameIn(call.out.fragments[2]) = <<"l", ".", "j", "s", "o", "n">>

----------------------------------------------------------------------------
(* Properties of single calls of the other operations (CallSpec)            *)

\* C14: clear_history returns an empty sequence and leaves the attribute
\* empty, whatever the history displayed before and whatever the other
\* arguments of the session are; it does not raise.
C14_ClearReturnsEmpty ==
    (call.pc = "done" /\ call.op = "clear_history") =>
        /\ ~call.out.raised
        /\ call.out.ret = << >>
        /\ conversation_history = << >>

\* C14 witness: clear_history was called with two turns displayed.
C14_Witness ==
    /\ call.pc = "done" /\ call.op = "clear_history"
    /\ Len(call.history) = 2
    /\ call.out.ret = << >>

\* the number of places at which pat occurs in s
Count(pat, s) ==
    Cardinality({ k \in 1..(Len(s) - Len(pat) + 1) :
                    SubSeq(s, k, k + Len(pat) - 1) = pat })

\* the first place at which pat occurs in s, 0 when there is none
Find(pat, s) ==
    LET at == { k \in 1..(Len(s) - Len(pat) + 1) :
                  SubSeq(s, k, k + Len(pat) - 1) = pat }
    IN  IF at = { } THEN 0 ELSE CHOOSE k \in at : \A j \in at : k <= j

\* s ends with suffix
endswith(s, suffix) ==
    /\ Len(s) >= Len(suffix)
    /\ SubSeq(s, Len(s) - Len(suffix) + 1, Len(s)) = suffix

\* the block of turn i of the history exported
TurnBlock(i) ==
    <<"#", "#", " ", "M", "e", "s", "s", "a", "g", "e", " ">>
    \o << Digits[i + 1] >>
    \o <<"\n", "\n", "*", "*", "U", "s", "e", "r", ":", "*", "*", " ">>
    \o call.history[i][1]
    \o << "\n", "\n", "*", "*", "A", "s", "s", "i", "s", "t", "a", "n", "t",
          ":", "*", "*", " " >>
    \o call.history[i][2]
    \o <<"\n", "\n">>

\* the export returned the path of a Markdown file whose header reports
\* len(history) turns and which holds one User/Assistant block per turn, in
\* order, with the turn's request and response
ExportedFile ==
    /\ ~call.out.raised
    /\ ~call.out.ret.none
    /\ endswith(call.out.ret.v, <<".", "m", "d">>)
    /\ ~export_written.none
    /\ LET content == export_written.v
           n == Len(call.history)
       IN  /\ Count(<< "T", "o", "t", "a", "l", " ", "M", "e", "s", "s", "a",
                       "g", "e", "s", ":", " " >>, content) = 1
           /\ Find(<< "T", "o", "t", "a", "l", " ", "M", "e", "s", "s", "a",
                      "g", "e", "s", ":", " " >>
                   \o << Digits[n + 1], "\n" >>, content) > 0
           /\ Count(<<"*", "*", "U", "s", "e", "r", ":", "*", "*", " ">>,
                    content) = n
           /\ Count(<< "*", "*", "A", "s", "s", "i", "s", "t", "a", "n", "t",
                       ":", "*", "*", " " >>,
                    content) = n
           /\ \A i \in 1..n :
                  /\ Find(TurnBlock(i), content) > 0
                  /\ i > 1 => Find(TurnBlock(i - 1), content)
                                  < Find(TurnBlock(i), content)

\* the export returned None and wrote no file
NothingExported ==
    /\ ~call.out.raised
    /\ call.out.ret = None
    /\ export_written = None

\* a step that is a call of export_conversation
ExportStep == call.pc = "ready" /\ call'.op = "export_conversation"

\* C15 (as claimed): for every history, export_conversation returns the path
\* of a Markdown file with the turn count and one block per turn, in order,
\* and leaves the history as it was (a failure to write the file, which the
\* claim does not speak of, set aside).
C15_ExportAsClaimed ==
    [][(ExportStep /\ ~call'.io_fails) =>
           (ExportedFile' /\ call'.history = call.history)]_vars

\* C15 (amended): for every non-empty history, export_conversation returns
\* the path of a Markdown file with the turn count and one block per turn, in
\* order, unless writing the file fails; for an empty history, and when
\* writing fails, it returns None and writes no file; in every case it
\* leaves the history as it was.
C15_ExportNonEmpty ==
    [][ExportStep =>
           /\ call'.history = call.history
           /\ chatbot_interface' = chatbot_interface
           /\ IF call.history = << >> \/ call'.io_fails
              THEN NothingExported'
              ELSE ExportedFile']_vars

\* C15 witness: a history of ("hi", "hello") and ("2+2?", "4") was exported
\* to a file that reports 2 turns.
C15_Witness ==
    /\ call.pc = "done" /\ call.op = "export_conversation"
    /\ call.history = << << <<"h", "i">>, <<"h", "e", "l", "l", "o">> >>,
                         << <<"2", "+", "2", "?">>, <<"4">> >> >>
    /\ ExportedFile
    /\ Find(<< "T", "o", "t", "a", "l", " ", "M", "e", "s", "s", "a", "g", "e",
               "s", ":", " ", "2", "\n" >>, export_written.v) > 0

\* the call made was submit_question and has ended
SubmitDone == call.pc = "done" /\ call.op = "submit_question"

\* C17 (as claimed): every submission ends with submit_question returning
\* the empty string for the input text, the resulting history (the one
\* passed in when the gate rejects, else that history and one more turn) and
\* None for the file list.
C17_SubmitResets ==
    SubmitDone =>
        /\ ~call.out.raised
        /\ Len(call.out.ret) = 3
        /\ call.out.ret[1] = EmptyStr
        /\ call.out.ret[3] = None
        /\ IF call.out.invoked = << >>
           THEN call.out.ret[2] = call.history
           ELSE /\ Len(call.out.ret[2]) = Len(call.history) + 1
                /\ SubSeq(call.out.ret[2], 1, Len(call.history)) = call.history

----------------------------------------------------------------------------
(* Properties of the session, continued (Spec)                              *)

\* C18 (as claimed): after a clear the displayed history holds only turns
\* recorded since that clear: it never holds more turns than the
\* submissions completed since the last clear have appended.
C18_NoStaleTurn == Len(chatbot_interface) <= recorded

\* C20: the attribute conversation_history of the chatbot is empty in every
\* state of the session: submissions record their turns in the history
\* passed in only, so the reset in clear_history discards no turn.
C20_AttributeEmpty == conversation_history = << >>

\* C20 witness: two turns are displayed, both appended by completed
\* submissions, and the attribute is empty.
C20_Witness ==
    /\ Len(chatbot_interface) = 2
    /\ recorded = 2
    /\ conversation_history = << >>
=============================================================================
